---- MODULE Spec2Model ----
(***************************************************************************)
(* Career JAM: the IndexedDB persistence layer (src/functions.js, lines    *)
(* 1-399) and the handlers of the application that write through it.       *)
(*                                                                         *)
(* The four object stores are sets of records keyed by `id`.  The engine   *)
(* primitives the code calls (add, put, delete, clear, getAll, index       *)
(* cursors, key generators, transaction abort on an unhandled request      *)
(* error) follow the Indexed Database API.                                 *)
(*                                                                         *)
(* Encoding of JavaScript values: numbers are integers, `null` is Null,    *)
(* an absent or undefined property is Undefined; created_at (an ISO-8601   *)
(* UTC string, whose lexicographic order is the order of time) is the      *)
(* tick of the clock at which it was taken; match_justification is 1 for   *)
(* some text.  name, title and status are strings.                         *)
(***************************************************************************)
EXTENDS Integers, Sequences, FiniteSets, TLC

VARIABLES schema, db, keyGen, companyMap, now, lastOp, saving

vars == <<schema, db, keyGen, companyMap, now, lastOp, saving>>

-----------------------------------------------------------------------------
(* Bounds of the model *)

MaxCompanyId == 2
MaxProfileId == 1
MaxJobId == 1
MaxClock == 2
MaxPageJobs == 3
MaxPageSize == 2
MaxDocLen == 2
MaxDocId == 2
MaxInitId == 2
MaxDeleted == 1
MaxStoreId == 3
MaxRenders == 2
MaxListeners == 2

-----------------------------------------------------------------------------
(* Values *)

Null == -1
Undefined == -2

Stores == <<"companies", "profiles", "people", "jobs">>

StoreNames == {Stores[i] : i \in 1..Len(Stores)}

JOB_STATUSES ==
    {"Bookmarked", "Applying", "Applied", "Interviewing", "Negotiating",
     "Accepted", "Spam", "Rejected"}

\* The statuses, company names, titles and salaries the model draws from.
StatusesUsed == {"Bookmarked", "Applied"}
Names == {"Acme", "Beta"}
Titles == {"Dev"}

NumericFields ==
    {"id", "company_id", "salary", "created_at", "profile_id",
     "match_percentage", "match_justification"}

\* The secondary indexes initDB creates on each store.
IndexNames(store) ==
    IF store = "companies" THEN {"name"}
    ELSE IF store = "jobs"
         THEN {"status", "company_id", "profile_id", "created_at", "salary",
               "match_percentage", "title"}
         ELSE {}

UniqueIndexes(store) == IF store = "companies" THEN {"name"} ELSE {}

-----------------------------------------------------------------------------
(* The engine: keys, indexes, add / put / delete *)

\* A value is a valid key when it is a number or a string; null and
\* undefined are not, and a record whose key path yields no valid key has
\* no entry in that index.
HasKey(rec, field) ==
    /\ field \in DOMAIN rec
    /\ field \in NumericFields => rec[field] \notin {Null, Undefined}

\* Order of string keys (code-unit order of the strings the model uses).
StringRank(s) ==
    CASE s = "Accepted" -> 1
      [] s = "Acme" -> 2
      [] s = "Applied" -> 3
      [] s = "Applying" -> 4
      [] s = "Beta" -> 5
      [] s = "Bogus" -> 6
      [] s = "Bookmarked" -> 7
      [] s = "Dev" -> 8
      [] s = "Interviewing" -> 9
      [] s = "Negotiating" -> 10
      [] s = "Ops" -> 11
      [] s = "Rejected" -> 12
      [] s = "Spam" -> 13
      [] OTHER -> 14

KeyRank(rec, field) ==
    IF field \in NumericFields THEN rec[field] ELSE StringRank(rec[field])

\* Index entries are ordered by key, then by primary key.
EntryBefore(a, b, field) ==
    \/ KeyRank(a, field) < KeyRank(b, field)
    \/ KeyRank(a, field) = KeyRank(b, field) /\ a.id < b.id

RECURSIVE SortEntries(_, _)
SortEntries(recs, field) ==
    IF recs = {} THEN <<>>
    ELSE LET first == CHOOSE r \in recs :
                         \A o \in recs \ {r} : EntryBefore(r, o, field)
         IN  <<first>> \o SortEntries(recs \ {first}, field)

\* store.index(field): the records that have a valid key, in index order.
IndexEntries(recs, field) ==
    SortEntries({r \in recs : HasKey(r, field)}, field)

Reverse(seq) == [i \in 1..Len(seq) |-> seq[Len(seq) + 1 - i]]

\* store.getAll(): every record, in primary-key order.
GetAll(recs) == SortEntries(recs, "id")

\* store.get(key)
GetItem(recs, key) == {r \in recs : r.id = key}

\* The key a record is stored under, and the key generator afterwards.
AssignedKey(item, gen) == IF item.id = Undefined THEN gen ELSE item.id

\* A key generator that an explicit key leaves as it is.
NextGenIgnoringExplicit(item, gen) ==
    IF item.id = Undefined THEN gen + 1 ELSE gen

NextGen(item, gen) ==
    IF item.id = Undefined THEN gen + 1
    ELSE IF item.id >= gen THEN item.id + 1 ELSE gen

\* A unique index rejects a record whose key is held by another record.
ViolatesUnique(store, recs, item, key) ==
    \E f \in UniqueIndexes(store) :
        /\ HasKey(item, f)
        /\ \E r \in recs : r.id # key /\ HasKey(r, f) /\ r[f] = item[f]

\* store.add without the check of the unique indexes.
IdbAddNoUnique(store, recs, gen, item) ==
    LET key == AssignedKey(item, gen)
    IN  IF \E r \in recs : r.id = key
        THEN [ok |-> FALSE, recs |-> recs, gen |-> gen, key |-> Undefined]
        ELSE [ok |-> TRUE,
              recs |-> recs \cup {[item EXCEPT !.id = key]},
              gen |-> NextGen(item, gen),
              key |-> key]

\* store.add(item): ConstraintError when the key exists or a unique index
\* is violated; a failed request leaves the store and its key generator as
\* they were.
IdbAdd(store, recs, gen, item) ==
    LET key == AssignedKey(item, gen)
        fails == \/ \E r \in recs : r.id = key
                 \/ ViolatesUnique(store, recs, item, key)
    IN  IF fails
        THEN [ok |-> FALSE, recs |-> recs, gen |-> gen, key |-> Undefined]
        ELSE [ok |-> TRUE,
              recs |-> recs \cup {[item EXCEPT !.id = key]},
              gen |-> NextGen(item, gen),
              key |-> key]

\* store.put without the check of the unique indexes.
IdbPutNoUnique(store, recs, gen, item) ==
    LET key == AssignedKey(item, gen)
    IN  [ok |-> TRUE,
         recs |-> {r \in recs : r.id # key} \cup {[item EXCEPT !.id = key]},
         gen |-> NextGen(item, gen),
         key |-> key]

\* store.put(item): insert or replace by key.
IdbPut(store, recs, gen, item) ==
    LET key == AssignedKey(item, gen)
    IN  IF ViolatesUnique(store, recs, item, key)
        THEN [ok |-> FALSE, recs |-> recs, gen |-> gen, key |-> Undefined]
        ELSE [ok |-> TRUE,
              recs |-> {r \in recs : r.id # key}
                          \cup {[item EXCEPT !.id = key]},
              gen |-> NextGen(item, gen),
              key |-> key]

\* store.delete(key): succeeds whether or not a record has that key.
IdbDelete(recs, key) == {r \in recs : r.id # key}

-----------------------------------------------------------------------------
(* getJobCount, getJobsByProfileId, getPaginatedJobs *)

getJobCount(jobs, status) == Cardinality({j \in jobs : j.status = status})

getJobsByProfileId(jobs, profileId) ==
    SortEntries({j \in jobs : HasKey(j, "profile_id")
                               /\ j.profile_id = profileId}, "id")

\* The cursor with the two directions exchanged.
OpenCursorSwapped(jobs, effectiveSortKey, status, sortOrder) ==
    LET all == SortEntries({r \in jobs : HasKey(r, effectiveSortKey)},
                           effectiveSortKey)
        inRange == IF effectiveSortKey = "status"
                   THEN SelectSeq(all, LAMBDA j : j.status = status)
                   ELSE all
    IN  IF sortOrder = "DESC" THEN inRange ELSE Reverse(inRange)

\* index.openCursor(range, direction): the entries the cursor visits.
OpenCursor(jobs, effectiveSortKey, status, sortOrder) ==
    LET all == IndexEntries(jobs, effectiveSortKey)
        inRange == IF effectiveSortKey = "status"
                   THEN SelectSeq(all, LAMBDA j : j.status = status)
                   ELSE all
    IN  IF sortOrder = "DESC" THEN Reverse(inRange) ELSE inRange

\* The cursor handler without the test of the record's status.
RECURSIVE CursorLoopNoFilter(_, _, _, _, _, _, _, _)
CursorLoopNoFilter(cur, i, status, effectiveSortKey, skipCount, itemsPerPage, skipped, results) ==
    IF i > Len(cur) THEN results
    ELSE IF skipped < skipCount
    THEN CursorLoopNoFilter(cur, i + 1, status, effectiveSortKey, skipCount,
                            itemsPerPage, skipped + 1, results)
    ELSE IF Len(results) < itemsPerPage
    THEN CursorLoopNoFilter(cur, i + 1, status, effectiveSortKey, skipCount,
                            itemsPerPage, skipped, Append(results, cur[i]))
    ELSE results

\* request.onsuccess, once per entry the cursor is positioned on.
RECURSIVE CursorLoop(_, _, _, _, _, _, _, _)
CursorLoop(cur, i, status, effectiveSortKey, skipCount, itemsPerPage, skipped, results) ==
    IF i > Len(cur) THEN results
    ELSE IF effectiveSortKey # "status" /\ cur[i].status # status
    THEN CursorLoop(cur, i + 1, status, effectiveSortKey, skipCount,
                    itemsPerPage, skipped, results)
    ELSE IF skipped < skipCount
    THEN CursorLoop(cur, i + 1, status, effectiveSortKey, skipCount,
                    itemsPerPage, skipped + 1, results)
    ELSE IF Len(results) < itemsPerPage
    THEN CursorLoop(cur, i + 1, status, effectiveSortKey, skipCount,
                    itemsPerPage, skipped, Append(results, cur[i]))
    ELSE results

\* The number of entries request.onsuccess was called with before the
\* promise resolved: the handler calls cursor.continue() after every entry
\* it passes over, counts as skipped or pushes, and resolves on the entry
\* it meets with a full page, or at the end of the cursor.
RECURSIVE CursorVisited(_, _, _, _, _, _, _, _)
CursorVisited(cur, i, status, effectiveSortKey, skipCount, itemsPerPage, skipped, collected) ==
    IF i > Len(cur) THEN Len(cur)
    ELSE IF effectiveSortKey # "status" /\ cur[i].status # status
    THEN CursorVisited(cur, i + 1, status, effectiveSortKey, skipCount,
                       itemsPerPage, skipped, collected)
    ELSE IF skipped < skipCount
    THEN CursorVisited(cur, i + 1, status, effectiveSortKey, skipCount,
                       itemsPerPage, skipped + 1, collected)
    ELSE IF collected < itemsPerPage
    THEN CursorVisited(cur, i + 1, status, effectiveSortKey, skipCount,
                       itemsPerPage, skipped, collected + 1)
    ELSE i

\* sortBy is the pair sortBy.split(' ') yields.  store.index throws for a
\* name that has no index, which rejects the promise.
getPaginatedJobs(jobs, status, sortBy, page, itemsPerPage) ==
    LET sortKey == sortBy[1]
        sortOrder == sortBy[2]
        effectiveSortKey ==
            IF sortKey = "company_name" THEN "company_id" ELSE sortKey
        skipCount == (page - 1) * itemsPerPage
    IN  IF effectiveSortKey \notin IndexNames("jobs")
        THEN [ok |-> FALSE, jobs |-> <<>>, visited |-> 0]
        ELSE [ok |-> TRUE,
              jobs |-> CursorLoop(
                  OpenCursor(jobs, effectiveSortKey, status, sortOrder),
                  1, status, effectiveSortKey, skipCount, itemsPerPage,
                  0, <<>>),
              visited |-> CursorVisited(
                  OpenCursor(jobs, effectiveSortKey, status, sortOrder),
                  1, status, effectiveSortKey, skipCount, itemsPerPage,
                  0, 0)]

-----------------------------------------------------------------------------
(* Pagination: every page of one listing of a populated jobs store *)

EmptyDB == [s \in StoreNames |-> {}]

NoOp == [kind |-> "none"]

DB_VERSION == 1

\* Before the first open there is no database: version 0 and no store.
NoDatabase == [version |-> 0, indexes |-> <<>>]

\* onupgradeneeded: each store is created, with its indexes, only when the
\* database does not contain it yet.
onupgradeneeded(sch) ==
    [version |-> DB_VERSION,
     indexes |-> [s \in StoreNames |->
                     IF s \in DOMAIN sch.indexes THEN sch.indexes[s]
                     ELSE IndexNames(s)]]

\* An upgrade that drops the stores it finds and creates them again.
initDBRecreating(sch, d) ==
    [schema |-> onupgradeneeded(NoDatabase), db |-> EmptyDB]

\* indexedDB.open(DB_NAME, DB_VERSION): the upgrade runs only when the
\* stored version is lower than the requested one; the records stay.
initDB(sch, d) ==
    [schema |-> IF sch.version < DB_VERSION THEN onupgradeneeded(sch)
                ELSE sch,
     db |-> d]

\* The schema of a database the application has opened.
OpenedSchema == initDB(NoDatabase, EmptyDB).schema

\* The sort fields the listing offers, in both directions.
SortFields ==
    {"title", "company_name", "location", "salary", "match_percentage",
     "status", "created_at"}

SortSpecs == {<<f, o>> : f \in SortFields, o \in {"ASC", "DESC"}}

Ceil(n, d) == (n + d - 1) \div d

MaxPage == MaxPageJobs + 1

\* parseFloat(formData.get('salary')) || null, for the texts "" and "5".
ParsedSalary(input) == IF input = "5" THEN 5 ELSE Null

\* Jobs as the add-job form and the list handlers leave them: saved without
\* a salary and not analysed, or with a salary and a match result.
PageJob(id, sal, st, at) ==
    [id |-> id, title |-> "Dev", company_id |-> 1, salary |-> sal,
     status |-> st, created_at |-> at,
     profile_id |-> IF sal = Null THEN Null ELSE 1,
     match_percentage |-> IF sal = Null THEN Null ELSE 80,
     match_justification |-> IF sal = Null THEN Null ELSE 1]

PageJobFields ==
    {ParsedSalary(t) : t \in {"", "5"}} \X StatusesUsed \X (1..MaxClock)

\* The jobs store after n saves: ids 1..n, in every combination of fields.
PageJobSets ==
    UNION {
        {{PageJob(i, f[i][1], f[i][2], f[i][3]) : i \in 1..n} :
            f \in [1..n -> PageJobFields]}
        : n \in 0..MaxPageJobs}

MaxKey(recs) ==
    IF recs = {} THEN 0 ELSE CHOOSE m \in {r.id : r \in recs} :
                                 \A r \in recs : r.id <= m

InitPage ==
    /\ schema = OpenedSchema
    /\ \E jobs \in PageJobSets : db = [EmptyDB EXCEPT !.jobs = jobs]
    /\ keyGen = [s \in StoreNames |-> MaxKey(db[s]) + 1]
    /\ companyMap = <<>>
    /\ now = MaxClock
    /\ lastOp = NoOp
    /\ saving = [pc |-> "idle"]

\* One listing: pages 1..MaxPage of (status, sortBy) at a page size.
ListPages(status, sortBy, itemsPerPage) ==
    /\ lastOp.kind = "none"
    /\ lastOp' = [kind |-> "pages", status |-> status, sortBy |-> sortBy,
                  itemsPerPage |-> itemsPerPage,
                  count |-> getJobCount(db.jobs, status),
                  pages |-> [p \in 1..MaxPage |->
                      getPaginatedJobs(db.jobs, status, sortBy, p,
                                       itemsPerPage)]]
    /\ UNCHANGED <<schema, db, keyGen, companyMap, now, saving>>

\* The status the list is filtered by.  The code treats every status value
\* alike (an equality test, or a key range of that one value), and the jobs
\* of the store take every status of StatusesUsed.
ListedStatuses == {"Bookmarked"}

NextPage ==
    \E status \in ListedStatuses, sortBy \in SortSpecs,
       itemsPerPage \in 1..MaxPageSize :
        ListPages(status, sortBy, itemsPerPage)

SpecPage == InitPage /\ [][NextPage]_vars

-----------------------------------------------------------------------------
(* exportDB and importDB *)

\* The document is the parsed JSON text: a function from the store names
\* it has as keys to arrays of records.  The stored values are finite
\* numbers, strings and null, which JSON.stringify and JSON.parse keep;
\* a property that is undefined is left out and reads as undefined again.
exportDB(d) == [s \in StoreNames |-> GetAll(d[s])]

\* The requests importDB places, in order: for each store a clear, then
\* one add per item when the document has the store.
RECURSIVE ImportOps(_, _)
ImportOps(data, n) ==
    IF n > Len(Stores) THEN <<>>
    ELSE LET storeName == Stores[n]
             adds == IF storeName \in DOMAIN data
                     THEN [i \in 1..Len(data[storeName]) |->
                              [type |-> "add", store |-> storeName,
                               item |-> data[storeName][i]]]
                     ELSE <<>>
         IN  <<[type |-> "clear", store |-> storeName]>> \o adds
                 \o ImportOps(data, n + 1)

\* The array element null of a document.
JsonNull == [json |-> "null"]

\* The id removed from every record.
WithoutAnyId(item) == [item EXCEPT !.id = Undefined]

\* 'Remove id if it's null/undefined to allow autoIncrement'
WithoutNullId(item) ==
    IF item.id = Null THEN [item EXCEPT !.id = Undefined] ELSE item

\* One request of importDB's single readwrite transaction.
\*   active:   the request runs.  A failed add fires an error event; the
\*             handler resolves without preventDefault, so the loop places
\*             its next request while the event is dispatched and the
\*             transaction aborts right after (state "aborting").
\*   aborting: the request placed during the dispatch gets an AbortError;
\*             the clear handler rejects, the add handler resolves.
\*   finished: transaction.objectStore throws, the promise rejects.
\* An item that is null makes item.id throw in the promise executor: the
\* promise rejects and no request is placed, so the transaction, still
\* active, commits the requests that ran.
ImportStep(ops, k, txn) ==
    LET op == ops[k]
    IN  IF txn.state = "finished"
        THEN [txn EXCEPT !.outcome = "rejected"]
        ELSE IF txn.state = "aborting"
        THEN IF op.type = "clear"
             THEN [txn EXCEPT !.state = "finished", !.outcome = "rejected"]
             ELSE [txn EXCEPT !.state = "finished"]
        ELSE IF op.type = "clear"
        THEN [txn EXCEPT !.db[op.store] = {}]
        ELSE IF op.item = JsonNull
        THEN [txn EXCEPT !.outcome = "rejected"]
        ELSE LET r == IdbAdd(op.store, txn.db[op.store],
                             txn.keyGen[op.store], WithoutNullId(op.item))
             IN  IF r.ok
                 THEN [txn EXCEPT !.db[op.store] = r.recs,
                                  !.keyGen[op.store] = r.gen]
                 ELSE [txn EXCEPT !.state = "aborting"]

RECURSIVE RunImport(_, _, _)
RunImport(ops, k, txn) ==
    IF txn.outcome = "rejected" THEN txn
    ELSE IF k > Len(ops) THEN [txn EXCEPT !.outcome = "resolved"]
    ELSE RunImport(ops, k + 1, ImportStep(ops, k, txn))

\* importDB(jsonString): the stores and key generators afterwards, and
\* whether the promise resolved.  An aborted transaction leaves the
\* database as it was before the import.
importDB(d, gen, data) ==
    LET txn == RunImport(ImportOps(data, 1), 1,
                         [db |-> d, keyGen |-> gen, state |-> "active",
                          outcome |-> "pending"])
    IN  IF txn.state = "active"
        THEN [db |-> txn.db, keyGen |-> txn.keyGen, outcome |-> txn.outcome,
              committed |-> TRUE]
        ELSE [db |-> d, keyGen |-> gen, outcome |-> txn.outcome,
              committed |-> FALSE]

-----------------------------------------------------------------------------
(* Backup and restore of a populated database *)

DistinctIds(recs) == \A a, b \in recs : a.id = b.id => a = b

UniqueNames(recs) == \A a, b \in recs : a.name = b.name => a = b

InitCompanies ==
    {c \in SUBSET [id : 1..MaxInitId, name : Names] :
        DistinctIds(c) /\ UniqueNames(c)}

InitProfiles == {{}, {[id |-> 1, name |-> "CV"]}}

InitPeople == {{[id |-> 1, first_name |-> "Ann"]}}

ImportJob(id, status) ==
    [id |-> id, title |-> "Dev", company_id |-> 1, salary |-> Null,
     status |-> status, created_at |-> 1, profile_id |-> Null,
     match_percentage |-> Null, match_justification |-> Null]

\* The jobs store before a restore: jobs as the add-job form saves them.
InitJobs == SUBSET {ImportJob(i, "Bookmarked") : i \in 1..MaxInitId}

CompanyMapOf(companies) ==
    [i \in {c.id : c \in companies} |->
        (CHOOSE c \in companies : c.id = i).name]

InitImport ==
    /\ schema = OpenedSchema
    /\ \E c \in InitCompanies, p \in InitProfiles, pe \in InitPeople,
          j \in InitJobs :
            db = [companies |-> c, profiles |-> p, people |-> pe, jobs |-> j]
    /\ keyGen = [s \in StoreNames |-> MaxKey(db[s]) + 1]
    /\ companyMap = CompanyMapOf(db.companies)
    /\ now = MaxClock
    /\ lastOp = NoOp
    /\ saving = [pc |-> "idle"]

\* The records a document may hold for a store: with an id, with id null
\* or without id.
DocIds == {Undefined, Null} \cup 1..MaxDocId

DocRecords(store) ==
    IF store = "companies" THEN [id : DocIds, name : Names]
    ELSE IF store = "profiles" THEN [id : DocIds, name : {"CV"}]
    ELSE IF store = "people" THEN [id : DocIds, first_name : {"Ann"}]
    ELSE {ImportJob(i, st) : i \in DocIds, st \in StatusesUsed}

Restrict(f, keys) == [k \in keys |-> f[k]]

\* The document `base` with the array of one store replaced.
WithStore(base, store, arr) ==
    [s \in DOMAIN base \cup {store} |-> IF s = store THEN arr ELSE base[s]]

\* The documents a restore starts from: the export of the database, or a
\* document without any store.
DocBases(d) == {exportDB(d), Restrict(exportDB(d), {})}

\* downloadBackup: the document exportDB yields.
downloadBackup ==
    /\ lastOp.kind = "none"
    /\ lastOp' = [kind |-> "export", data |-> exportDB(db)]
    /\ UNCHANGED <<schema, db, keyGen, companyMap, now, saving>>

\* renderJobs(status) up to its first await: the getJobCount request is
\* placed.  fromInit marks the rendering init waits for before it calls
\* setupEventListeners and initDeleteAndEditHandlers.
Render(status, fromInit) ==
    [status |-> status, pc |-> "count", totalPages |-> 0,
     fromInit |-> fromInit]

\* init, as far as the job list goes: refreshJobsView starts a rendering of
\* the current status tab.  Outside the job list there is nothing to do.
init(view) ==
    IF view.pc = "view"
    THEN [view EXCEPT !.renders =
              Append(@, Render(view.currentJobViewStatus, TRUE))]
    ELSE view

\* restoreDatabase: importDB, then init (which reloads companyMap) when
\* importDB resolved.
restoreDatabase(data, roundTrip) ==
    \E r \in {importDB(db, keyGen, data)} :
        /\ db' = r.db
        /\ keyGen' = r.keyGen
        /\ companyMap' = IF r.outcome = "resolved"
                          THEN CompanyMapOf(r.db.companies)
                          ELSE companyMap
        /\ lastOp' = [kind |-> "import", data |-> data,
                      outcome |-> r.outcome, committed |-> r.committed,
                      roundTrip |-> roundTrip]
        /\ saving' = IF r.outcome = "resolved" THEN init(saving)
                                                ELSE saving
        /\ UNCHANGED <<schema, now>>

\* A restore from a document that differs from the export, or from the
\* document without any store, in one store: the store left out, or its
\* array replaced by one of up to MaxDocLen records.
RestoreDocument ==
    /\ lastOp.kind = "none"
    /\ \E base \in DocBases(db), store \in StoreNames :
          \/ restoreDatabase(Restrict(base, DOMAIN base \ {store}), FALSE)
          \/ \E n \in 0..MaxDocLen : \E arr \in [1..n -> DocRecords(store)] :
                restoreDatabase(WithStore(base, store, arr), FALSE)

RestoreBackup ==
    /\ lastOp.kind = "export"
    /\ restoreDatabase(lastOp.data, TRUE)

\* The objects the callers hand to the add functions, and the same objects
\* with one property left out.
StoreItems(store) ==
    IF store = "companies" THEN {[id |-> Undefined, name |-> n] : n \in Names}
    ELSE IF store = "profiles"
    THEN {[id |-> Undefined, name |-> "CV", content |-> "Text"]}
    ELSE IF store = "people" THEN {[id |-> Undefined, first_name |-> "Ann"]}
    ELSE {ImportJob(Undefined, "Bookmarked")}

PartialItems(store) ==
    {Restrict(item, DOMAIN item \ {f}) :
        item \in StoreItems(store), f \in {"name", "content", "title"}}

\* Array elements no form of the application produces: null, and a job
\* whose status is not one of JOB_STATUSES.
ForeignItems(store) ==
    {JsonNull} \cup
    (IF store = "jobs" THEN {ImportJob(1, "Bogus")} ELSE {})

\* A restore of a document that holds one element for one store, and the
\* other stores as they are: a record with or without id, or a foreign
\* element.
RestoreRecord ==
    /\ lastOp.kind = "none"
    /\ \E store \in StoreNames :
        \E item \in {[i EXCEPT !.id = id] :
                        i \in StoreItems(store),
                        id \in {Undefined} \cup 1..MaxStoreId}
                    \cup ForeignItems(store) :
            restoreDatabase(WithStore(exportDB(db), store, <<item>>), FALSE)

NextImport ==
    downloadBackup \/ RestoreDocument \/ RestoreBackup \/ RestoreRecord

SpecImport == InitImport /\ [][NextImport]_vars

-----------------------------------------------------------------------------
(* The handlers of the application *)

Idle == [pc |-> "idle"]

Init ==
    /\ schema = OpenedSchema
    /\ db = EmptyDB
    /\ keyGen = [s \in StoreNames |-> 1]
    /\ companyMap = <<>>
    /\ now = 1
    /\ lastOp = NoOp
    /\ saving = Idle

\* Map.prototype.set and Map.prototype.delete
MapSet(map, key, value) ==
    [k \in DOMAIN map \cup {key} |-> IF k = key THEN value ELSE map[k]]

MapDelete(map, key) == [k \in DOMAIN map \ {key} |-> map[k]]

\* new Date(): a later save reads a later time, up to the last tick.
Tick == now' = IF now < MaxClock THEN now + 1 ELSE now

\* The salary field of the add-job form as the handlers below submit it:
\* left empty.  The listing is checked on jobs with and without a salary.
SalaryInputs == {""}

getCompanyByName(companies, name) == {c \in companies : c.name = name}

\* deleteCompany with a cascade on the jobs of the company.
deleteCompanyCascading(d, id) ==
    [d EXCEPT !.companies = IdbDelete(d.companies, id),
              !.jobs = {j \in d.jobs : j.company_id # id}]

\* deleteCompany: 'This only deletes the company.'
deleteCompany(d, id) == [d EXCEPT !.companies = IdbDelete(d.companies, id)]

deleteProfile(d, id) == [d EXCEPT !.profiles = IdbDelete(d.profiles, id)]

deleteJob(d, id) == [d EXCEPT !.jobs = IdbDelete(d.jobs, id)]

deletePerson(d, id) == [d EXCEPT !.people = IdbDelete(d.people, id)]

\* handleAddCompany: the add-company form.
handleAddCompany(name) ==
    LET r == IdbAdd("companies", db.companies, keyGen.companies,
                    [id |-> Undefined, name |-> name])
    IN  /\ keyGen.companies <= MaxCompanyId
        /\ db' = [db EXCEPT !.companies = r.recs]
        /\ keyGen' = [keyGen EXCEPT !.companies = r.gen]
        /\ companyMap' = IF r.ok THEN MapSet(companyMap, r.key, name)
                                  ELSE companyMap
        /\ lastOp' = [kind |-> "addCompany", ok |-> r.ok, name |-> name,
                      via |-> "add-company-form"]
        /\ UNCHANGED <<schema, now, saving>>

\* handleAddProfile: the add-profile form.
handleAddProfile ==
    LET r == IdbAdd("profiles", db.profiles, keyGen.profiles,
                    [id |-> Undefined, name |-> "CV"])
    IN  /\ keyGen.profiles <= MaxProfileId
        /\ db' = [db EXCEPT !.profiles = r.recs]
        /\ keyGen' = [keyGen EXCEPT !.profiles = r.gen]
        /\ lastOp' = [kind |-> "addProfile", ok |-> r.ok]
        /\ UNCHANGED <<schema, companyMap, now, saving>>

\* The add-job form, submitted for a new job.  The handler places its
\* getCompanyByName request and is suspended.
SubmitJobForm(title, companyName, salaryInput) ==
    /\ saving = Idle
    /\ keyGen.jobs <= MaxJobId
    /\ saving' = [pc |-> "lookup", title |-> title,
                  companyName |-> companyName,
                  salary |-> ParsedSalary(salaryInput),
                  company |-> getCompanyByName(db.companies, companyName)]
    /\ lastOp' = [kind |-> "submitJob", ok |-> TRUE]
    /\ UNCHANGED <<schema, db, keyGen, companyMap, now>>

\* The job the form would save if it dropped the company it resolved.
NewJobWithoutCompany(title, companyId, salary, createdAt) ==
    [id |-> Undefined, title |-> title, company_id |-> Undefined,
     salary |-> salary, status |-> "Bookmarked", created_at |-> createdAt,
     profile_id |-> Null, match_percentage |-> Null,
     match_justification |-> Null]

\* The job the form saves.
NewJob(title, companyId, salary, createdAt) ==
    [id |-> Undefined, title |-> title, company_id |-> companyId,
     salary |-> salary, status |-> "Bookmarked", created_at |-> createdAt,
     profile_id |-> Null, match_percentage |-> Null,
     match_justification |-> Null]

\* addJob(jobData) and the end of the handler.
SaveNewJob(companyId) ==
    LET r == IdbAdd("jobs", db.jobs, keyGen.jobs,
                    NewJob(saving.title, companyId, saving.salary, now'))
    IN  /\ Tick
        /\ db' = [db EXCEPT !.jobs = r.recs]
        /\ keyGen' = [keyGen EXCEPT !.jobs = r.gen]
        /\ lastOp' = [kind |-> "addJob", ok |-> r.ok]
        /\ saving' = Idle
        /\ UNCHANGED schema

\* The handler resumes with the company found: none and auto-create on,
\* it adds the company and, in the task of the add's success event, sets
\* the cache; one found, it saves the job; otherwise it
\* reports that the company was not found.  autoCreateCompany is the
\* setting at that moment.
JobFormAfterLookup ==
    /\ saving.pc = "lookup"
    /\ \E autoCreateCompany \in BOOLEAN :
          IF saving.company = {} /\ autoCreateCompany
          THEN LET r == IdbAdd("companies", db.companies, keyGen.companies,
                               [id |-> Undefined,
                                name |-> saving.companyName])
               IN  /\ keyGen.companies <= MaxCompanyId
                   /\ db' = [db EXCEPT !.companies = r.recs]
                   /\ keyGen' = [keyGen EXCEPT !.companies = r.gen]
                   /\ lastOp' = [kind |-> "addCompany", ok |-> r.ok,
                                 name |-> saving.companyName,
                                 via |-> "add-job-form"]
                   /\ saving' = IF r.ok
                                THEN [saving EXCEPT !.pc = "created",
                                                    !.company = r.recs
                                                        \ db.companies]
                                ELSE Idle
                   /\ companyMap' = IF r.ok
                                    THEN MapSet(companyMap, r.key,
                                                saving.companyName)
                                    ELSE companyMap
                   /\ UNCHANGED <<schema, now>>
          ELSE IF saving.company # {}
          THEN /\ SaveNewJob((CHOOSE c \in saving.company : TRUE).id)
               /\ UNCHANGED companyMap
          ELSE /\ lastOp' = [kind |-> "addJob", ok |-> FALSE]
               /\ saving' = Idle
               /\ UNCHANGED <<schema, db, keyGen, companyMap, now>>

\* The handler has resumed with the id of the company it created, in the
\* task of the request's success event, has set the cache and has placed
\* addJob; this is the end of that request.
JobFormAfterCreate ==
    /\ saving.pc = "created"
    /\ SaveNewJob((CHOOSE c \in saving.company : TRUE).id)
    /\ UNCHANGED companyMap

\* updateJob(job) for a job read with getJob: the record replaces the
\* stored one; its key is below the key generator, which stays.
updateJob(d, job) ==
    [d EXCEPT !.jobs = IdbPut("jobs", d.jobs, job.id + 1, job).recs]

\* The change listener of the profile select of a job row; the options of
\* the select are 'None' and the profiles of the last rendering.
profileSelectChange(jobId, profileId) ==
    /\ profileId = Null \/ GetItem(db.profiles, profileId) # {}
    /\ \E job \in GetItem(db.jobs, jobId) :
          db' = updateJob(db, [job EXCEPT !.profile_id = profileId,
                                          !.match_percentage = Null,
                                          !.match_justification = Null])
    /\ lastOp' = [kind |-> "selectProfile", ok |-> TRUE]
    /\ UNCHANGED <<schema, keyGen, companyMap, now, saving>>

\* handleAnalyzeMatchFromList with the result the language model gave.
handleAnalyzeMatchFromList(jobId, profileId) ==
    /\ GetItem(db.profiles, profileId) # {}
    /\ \E job \in GetItem(db.jobs, jobId) :
          db' = updateJob(db, [job EXCEPT !.match_percentage = 80,
                                          !.match_justification = 1])
    /\ lastOp' = [kind |-> "analyzeMatch", ok |-> TRUE]
    /\ UNCHANGED <<schema, keyGen, companyMap, now, saving>>

\* The click listener of the analyze button of a job row: the button is
\* enabled for a job with a profile_id, and the profile select of the row
\* has that profile as its value when the profile is among its options.
analyzeMatchClick(jobId) ==
    \E job \in GetItem(db.jobs, jobId) :
        /\ job.profile_id # Null
        /\ handleAnalyzeMatchFromList(jobId, job.profile_id)

\* saveChange of makeStatusEditable: the inline status edit.
saveChange(jobId, newStatus) ==
    /\ \E job \in GetItem(db.jobs, jobId) :
          db' = updateJob(db, [job EXCEPT !.status = newStatus])
    /\ lastOp' = [kind |-> "saveStatus", ok |-> TRUE]
    /\ UNCHANGED <<schema, keyGen, companyMap, now, saving>>

\* handleEditCompany: the edit-company form of a stored company.  The
\* record read with getCompany is written back with the name of the form;
\* a rejected updateCompany ends in the catch block, which reports the
\* error and leaves companyMap alone.
handleEditCompany(companyId, name) ==
    \E oldCompany \in GetItem(db.companies, companyId) :
    \E r \in {IdbPut("companies", db.companies, keyGen.companies,
                     [oldCompany EXCEPT !.name = name])} :
        /\ db' = [db EXCEPT !.companies = r.recs]
        /\ companyMap' = IF r.ok THEN MapSet(companyMap, companyId, name)
                                  ELSE companyMap
        /\ lastOp' = [kind |-> "editCompany", ok |-> r.ok,
                      id |-> companyId, name |-> name]
        /\ UNCHANGED <<schema, keyGen, now, saving>>

\* The store of the item types of the delete modal.
DeleteStore(type) ==
    CASE type = "job" -> "jobs"
      [] type = "profile" -> "profiles"
      [] type = "person" -> "people"
      [] type = "company" -> "companies"

\* handleDeleteConfirmed: the confirm button of the delete modal, which
\* openDeleteModal filled from the row or the detail view of a stored item.
handleDeleteConfirmed(type, id) ==
    /\ GetItem(db[DeleteStore(type)], id) # {}
    /\ db' = CASE type = "job" -> deleteJob(db, id)
                [] type = "profile" -> deleteProfile(db, id)
                [] type = "person" -> deletePerson(db, id)
                [] type = "company" -> deleteCompany(db, id)
    /\ companyMap' = IF type = "company" THEN MapDelete(companyMap, id)
                                          ELSE companyMap
    /\ lastOp' = [kind |-> "delete", ok |-> TRUE, type |-> type, id |-> id]
    /\ UNCHANGED <<schema, keyGen, now, saving>>

\* The items the delete modal can be opened for.
DeleteTargets ==
    ({"job"} \X (1..MaxJobId)) \cup ({"profile"} \X (1..MaxProfileId))
        \cup ({"company"} \X (1..MaxCompanyId)) \cup ({"person"} \X {1})

Next ==
    \/ \E name \in Names : handleAddCompany(name)
    \/ handleAddProfile
    \/ \E title \in Titles, companyName \in Names,
          salaryInput \in SalaryInputs :
            SubmitJobForm(title, companyName, salaryInput)
    \/ JobFormAfterLookup
    \/ JobFormAfterCreate
    \/ \E jobId \in 1..MaxJobId, profileId \in {Null} \cup 1..MaxProfileId :
            profileSelectChange(jobId, profileId)
    \/ \E jobId \in 1..MaxJobId : analyzeMatchClick(jobId)
    \/ \E jobId \in 1..MaxJobId, newStatus \in StatusesUsed :
            saveChange(jobId, newStatus)
    \/ \E target \in DeleteTargets :
            handleDeleteConfirmed(target[1], target[2])
    \/ \E companyId \in 1..MaxCompanyId, name \in Names :
            handleEditCompany(companyId, name)

Spec == Init /\ [][Next]_vars

-----------------------------------------------------------------------------
(* The repository functions, one call on a populated database *)

\* A populated database.  Records that were deleted leave the store's key
\* generator ahead of the highest id it holds.
InitStore ==
    /\ schema = OpenedSchema
    /\ \E c \in InitCompanies, p \in InitProfiles, pe \in InitPeople,
          j \in InitJobs :
            db = [companies |-> c, profiles |-> p, people |-> pe, jobs |-> j]
    /\ \E deleted \in [StoreNames -> 0..MaxDeleted] :
            keyGen = [s \in StoreNames |-> MaxKey(db[s]) + 1 + deleted[s]]
    /\ companyMap = CompanyMapOf(db.companies)
    /\ now = MaxClock
    /\ lastOp = NoOp
    /\ saving = Idle

\* addItem(storeName, item), behind addCompany, addProfile, addPerson and
\* addJob: resolves with the key or rejects with the request's error.
addItem(storeName, item) ==
    \E r \in {IdbAdd(storeName, db[storeName], keyGen[storeName], item)} :
        /\ db' = [db EXCEPT ![storeName] = r.recs]
        /\ keyGen' = [keyGen EXCEPT ![storeName] = r.gen]
        /\ lastOp' = [kind |-> "addItem", store |-> storeName,
                      item |-> item, ok |-> r.ok]
        /\ UNCHANGED <<schema, companyMap, now, saving>>

\* updateItem(storeName, item), behind updateCompany, updateProfile,
\* updatePerson and updateJob: store.put.
updateItem(storeName, item) ==
    \E r \in {IdbPut(storeName, db[storeName], keyGen[storeName], item)} :
        /\ db' = [db EXCEPT ![storeName] = r.recs]
        /\ keyGen' = [keyGen EXCEPT ![storeName] = r.gen]
        /\ lastOp' = [kind |-> "updateItem", store |-> storeName,
                      id |-> item.id, ok |-> r.ok]
        /\ UNCHANGED <<schema, companyMap, now, saving>>

\* deleteItem(storeName, key), behind deleteCompany, deleteProfile,
\* deletePerson and deleteJob: resolves when the request succeeds.
deleteItem(storeName, key) ==
    /\ db' = [db EXCEPT ![storeName] = IdbDelete(db[storeName], key)]
    /\ lastOp' = [kind |-> "deleteItem", store |-> storeName, id |-> key,
                  ok |-> TRUE]
    /\ UNCHANGED <<schema, keyGen, companyMap, now, saving>>

\* updateJobNotes and updatePersonNotes: the record is read, and written
\* back with the notes when it exists; the promise resolves either way.
updateNotes(storeName, id, notes) ==
    /\ db' = [db EXCEPT ![storeName] =
                 {IF r.id = id THEN MapSet(r, "notes", notes) ELSE r :
                     r \in db[storeName]}]
    /\ lastOp' = [kind |-> "updateNotes", store |-> storeName, id |-> id,
                  ok |-> TRUE]
    /\ UNCHANGED <<schema, keyGen, companyMap, now, saving>>

updateJobNotes(id, notes) == updateNotes("jobs", id, notes)

updatePersonNotes(id, notes) == updateNotes("people", id, notes)

\* A second call of initDB on the opened database.
Reopen ==
    \E r \in {initDB(schema, db)} :
        /\ schema' = r.schema
        /\ db' = r.db
        /\ lastOp' = [kind |-> "initDB"]
        /\ UNCHANGED <<keyGen, companyMap, now, saving>>

NextStore ==
    /\ lastOp.kind = "none"
    /\ \/ \E store \in StoreNames :
            \E item \in StoreItems(store) \cup PartialItems(store) :
                addItem(store, item)
       \/ \E store \in StoreNames, id \in 1..MaxStoreId :
            \E item \in StoreItems(store) :
                updateItem(store, [item EXCEPT !.id = id])
       \/ \E store \in StoreNames, id \in 1..MaxStoreId :
                deleteItem(store, id)
       \/ \E id \in 1..MaxStoreId : updateJobNotes(id, "Note")
       \/ \E id \in 1..MaxStoreId : updatePersonNotes(id, "Note")
       \/ Reopen
       \/ RestoreRecord

SpecStore == InitStore /\ [][NextStore]_vars

-----------------------------------------------------------------------------
(* Profile selection and match analysis, with the language model's reply
   arriving while other handlers run *)

\* A stored job with its profile and no match result.
MatchJob(id, profileId) == [ImportJob(id, "Bookmarked") EXCEPT !.profile_id = profileId]

\* What JSON.parse makes of the language model's reply, destructured to
\* match_percentage and justification: both keys, or one of them missing.
LLMResults ==
    {[match_percentage |-> 80, justification |-> 1],
     [match_percentage |-> 80, justification |-> Undefined]}

\* unsavedAnalysisData.match when no match analysis ran: null.
NoMatch == [match_percentage |-> Null, justification |-> Null]

\* No analysis from the list in flight, no job open in the detail view,
\* no unsaved analysis.
MatchIdle == [pc |-> "match", analysis |-> {}, open |-> Null, unsaved |-> {}]

InitMatch ==
    /\ schema = OpenedSchema
    /\ \E p \in InitProfiles :
       \E f \in [1..MaxInitId -> {Undefined, Null} \cup {q.id : q \in p}] :
          db = [companies |-> {[id |-> 1, name |-> "Acme"]},
                profiles |-> p, people |-> {},
                jobs |-> {MatchJob(i, f[i]) :
                             i \in {k \in 1..MaxInitId : f[k] # Undefined}}]
    /\ keyGen = [s \in StoreNames |-> MaxKey(db[s]) + 1]
    /\ companyMap = CompanyMapOf(db.companies)
    /\ now = MaxClock
    /\ lastOp = NoOp
    /\ saving = MatchIdle

\* handleAnalyzeMatchFromList up to the call of the language model: the
\* job and the profile are read, and the handler waits for the reply.
analyzeMatchStart(jobId) ==
    /\ saving.analysis = {}
    /\ \E job \in GetItem(db.jobs, jobId) :
          /\ job.profile_id # Null
          /\ GetItem(db.profiles, job.profile_id) # {}
          /\ saving' = [saving EXCEPT !.analysis = {job}]
    /\ lastOp' = [kind |-> "analyzeStart", ok |-> TRUE]
    /\ UNCHANGED <<schema, db, keyGen, companyMap, now>>

\* handleAnalyzeMatchFromList after the reply: the job read before the
\* call gets the two values and is written back; a reply that is not JSON
\* ends in the catch block.
analyzeMatchResume(parsed, result) ==
    /\ saving.analysis # {}
    /\ \E job \in saving.analysis :
          db' = IF parsed
                THEN updateJob(db, [job EXCEPT
                        !.match_percentage = result.match_percentage,
                        !.match_justification = result.justification])
                ELSE db
    /\ saving' = [saving EXCEPT !.analysis = {}]
    /\ lastOp' = [kind |-> "analyzeMatch", ok |-> parsed]
    /\ UNCHANGED <<schema, keyGen, companyMap, now>>

\* showJobDetail: the job becomes the open one; an unsaved analysis is
\* dropped when the job exists.
showJobDetail(jobId) ==
    /\ saving' = [saving EXCEPT
                     !.open = jobId,
                     !.unsaved = IF GetItem(db.jobs, jobId) = {}
                                 THEN @ ELSE {}]
    /\ lastOp' = [kind |-> "showJobDetail", ok |-> TRUE]
    /\ UNCHANGED <<schema, db, keyGen, companyMap, now>>

\* generateAndDisplayFullAnalysis: the match analysis runs when the open
\* job has a profile_id and that profile exists.
generateAndDisplayFullAnalysis(result) ==
    /\ saving.open # Null
    /\ \E job \in GetItem(db.jobs, saving.open) :
          saving' = [saving EXCEPT !.unsaved =
                        IF /\ job.profile_id # Null
                           /\ GetItem(db.profiles, job.profile_id) # {}
                        THEN {result} ELSE {NoMatch}]
    /\ lastOp' = [kind |-> "generateAnalysis", ok |-> TRUE]
    /\ UNCHANGED <<schema, db, keyGen, companyMap, now>>

\* handleSaveAnalysis: the open job is read and written back with the
\* values of the unsaved analysis.
handleSaveAnalysis ==
    /\ saving.unsaved # {} /\ saving.open # Null
    /\ \E match \in saving.unsaved :
          IF GetItem(db.jobs, saving.open) = {}
          THEN UNCHANGED <<db, saving>>
          ELSE \E job \in GetItem(db.jobs, saving.open) :
                  /\ db' = updateJob(db, [job EXCEPT
                              !.match_percentage = match.match_percentage,
                              !.match_justification = match.justification])
                  /\ saving' = [saving EXCEPT !.unsaved = {}]
    /\ lastOp' = [kind |-> "saveAnalysis", ok |-> TRUE]
    /\ UNCHANGED <<schema, keyGen, companyMap, now>>

\* originalJob.field: undefined when the stored record has no such property.
Field(rec, field) == IF field \in DOMAIN rec THEN rec[field] ELSE Undefined

\* The add-job form submitted for an existing job as if it were a new one:
\* status 'Bookmarked', no profile, no match result, no keywords.
SubmitJobEditAsNew(jobId, title, companyName, notes) ==
    /\ \E company \in getCompanyByName(db.companies, companyName) :
       \E originalJob \in GetItem(db.jobs, jobId) :
          db' = updateJob(db,
                    [id |-> jobId, title |-> title,
                     company_id |-> company.id,
                     salary |-> ParsedSalary(""),
                     notes |-> notes,
                     status |-> "Bookmarked",
                     created_at |-> now,
                     profile_id |-> Null,
                     match_percentage |-> Null,
                     match_justification |-> Null,
                     ai_keywords |-> Null])
    /\ lastOp' = [kind |-> "updateJob", ok |-> TRUE, id |-> jobId]
    /\ UNCHANGED <<schema, keyGen, companyMap, now, saving>>

\* The add-job form submitted for an existing job whose company is found:
\* title, company, salary and notes come from the form; status,
\* created_at, profile_id, the match fields and ai_keywords are copied
\* from the stored job.
SubmitJobEdit(jobId, title, companyName, notes) ==
    /\ \E company \in getCompanyByName(db.companies, companyName) :
       \E originalJob \in GetItem(db.jobs, jobId) :
          db' = updateJob(db,
                    [id |-> jobId, title |-> title,
                     company_id |-> company.id,
                     salary |-> ParsedSalary(""),
                     notes |-> notes,
                     status |-> originalJob.status,
                     created_at |-> originalJob.created_at,
                     profile_id |-> originalJob.profile_id,
                     match_percentage |-> originalJob.match_percentage,
                     match_justification |->
                         originalJob.match_justification,
                     ai_keywords |-> Field(originalJob, "ai_keywords")])
    /\ lastOp' = [kind |-> "updateJob", ok |-> TRUE, id |-> jobId]
    /\ UNCHANGED <<schema, keyGen, companyMap, now, saving>>

NextMatch ==
    \/ \E jobId \in 1..MaxInitId, profileId \in {Null} \cup 1..MaxProfileId :
            profileSelectChange(jobId, profileId)
    \/ \E jobId \in 1..MaxInitId : analyzeMatchStart(jobId)
    \/ \E parsed \in BOOLEAN, result \in LLMResults :
            analyzeMatchResume(parsed, result)
    \/ \E jobId \in 1..MaxInitId : showJobDetail(jobId)
    \/ \E result \in LLMResults : generateAndDisplayFullAnalysis(result)
    \/ handleSaveAnalysis
    \/ \E jobId \in 1..MaxInitId, title \in {"Dev", "Ops"} :
            SubmitJobEdit(jobId, title, "Acme", "")
    \/ \E id \in 1..MaxProfileId : handleDeleteConfirmed("profile", id)

SpecMatch == InitMatch /\ [][NextMatch]_vars

-----------------------------------------------------------------------------
(* The job list: status tabs, pagination controls and the renderings that
   wait for the database *)

\* The job list after init: page 1 of the 'Bookmarked' tab, the pagination
\* controls as the finished rendering left them, one set of listeners.
View(jobs, itemsPerPage) ==
    [pc |-> "view", currentPage |-> 1, itemsPerPage |-> itemsPerPage,
     currentJobViewStatus |-> "Bookmarked",
     prevDisabled |-> TRUE,
     nextDisabled |-> 1 >= Ceil(getJobCount(jobs, "Bookmarked"), itemsPerPage),
     renders |-> <<>>, listeners |-> 1]

InitView ==
    /\ schema = OpenedSchema
    /\ \E ids \in SUBSET (1..MaxInitId) :
       \E st \in [ids -> StatusesUsed] :
          db = [companies |-> {[id |-> 1, name |-> "Acme"]},
                profiles |-> {}, people |-> {},
                jobs |-> {ImportJob(i, st[i]) : i \in ids}]
    /\ keyGen = [s \in StoreNames |-> MaxKey(db[s]) + 1]
    /\ companyMap = CompanyMapOf(db.companies)
    /\ now = MaxClock
    /\ lastOp = NoOp
    /\ \E itemsPerPage \in 1..MaxPageSize :
          saving = View(db.jobs, itemsPerPage)

\* n calls of renderJobs(status), each up to its first await.
RECURSIVE StartRenders(_, _, _)
StartRenders(renders, status, n) ==
    IF n = 0 THEN renders
    ELSE StartRenders(Append(renders, Render(status, FALSE)), status, n - 1)

\* The click listeners of the status tabs: each sets currentJobViewStatus
\* and calls renderJobs.
statusTabClick(status) ==
    /\ saving.pc = "view"
    /\ Len(saving.renders) + saving.listeners <= MaxRenders
    /\ saving' = [saving EXCEPT
                     !.currentJobViewStatus = status,
                     !.renders = StartRenders(@, status, saving.listeners)]
    /\ lastOp' = [kind |-> "statusTab"]
    /\ UNCHANGED <<schema, db, keyGen, companyMap, now>>

\* The click listeners of prevPageBtn, which a disabled button does not
\* call: each decrements a currentPage above 1 and calls renderJobs.
RECURSIVE prevPageListeners(_, _)
prevPageListeners(view, n) ==
    IF n = 0 THEN view
    ELSE prevPageListeners(
             IF view.currentPage > 1
             THEN [view EXCEPT
                      !.currentPage = @ - 1,
                      !.renders = Append(@, Render(view.currentJobViewStatus,
                                                   FALSE))]
             ELSE view,
             n - 1)

prevPageClick ==
    /\ saving.pc = "view" /\ ~saving.prevDisabled
    /\ Len(saving.renders) + saving.listeners <= MaxRenders
    /\ saving' = prevPageListeners(saving, saving.listeners)
    /\ lastOp' = [kind |-> "prevPage"]
    /\ UNCHANGED <<schema, db, keyGen, companyMap, now>>

\* The click listeners of nextPageBtn: each increments currentPage and
\* calls renderJobs.
nextPageClick ==
    /\ saving.pc = "view" /\ ~saving.nextDisabled
    /\ Len(saving.renders) + saving.listeners <= MaxRenders
    /\ saving' = [saving EXCEPT
                     !.currentPage = @ + saving.listeners,
                     !.renders = StartRenders(@, saving.currentJobViewStatus,
                                              saving.listeners)]
    /\ lastOp' = [kind |-> "nextPage"]
    /\ UNCHANGED <<schema, db, keyGen, companyMap, now>>

\* The change listeners of itemsPerPageSelect: each sets itemsPerPage,
\* resets currentPage to 1 and calls renderJobs.
itemsPerPageChange(itemsPerPage) ==
    /\ saving.pc = "view"
    /\ Len(saving.renders) + saving.listeners <= MaxRenders
    /\ saving' = [saving EXCEPT
                     !.itemsPerPage = itemsPerPage,
                     !.currentPage = 1,
                     !.renders = StartRenders(@, saving.currentJobViewStatus,
                                              saving.listeners)]
    /\ lastOp' = [kind |-> "itemsPerPage"]
    /\ UNCHANGED <<schema, db, keyGen, companyMap, now>>

Min(a, b) == IF a < b THEN a ELSE b

WithoutRender(renders, i) ==
    SubSeq(renders, 1, i - 1) \o SubSeq(renders, i + 1, Len(renders))

\* renderJobs goes on with the count of the jobs of its status: totalPages,
\* the clamp of currentPage, renderPaginationControls; then it places the
\* getAllProfiles request.
renderJobsAfterCount(i) ==
    /\ saving.pc = "view" /\ i \in 1..Len(saving.renders)
    /\ saving.renders[i].pc = "count"
    /\ LET totalItems == getJobCount(db.jobs, saving.renders[i].status)
           totalPages == Ceil(totalItems, saving.itemsPerPage)
           clamped == Min(saving.currentPage, totalPages)
           currentPage == IF clamped = 0 THEN 1 ELSE clamped
       IN  saving' = [saving EXCEPT
                         !.currentPage = currentPage,
                         !.prevDisabled = currentPage <= 1,
                         !.nextDisabled = currentPage >= totalPages,
                         !.renders[i].pc = "profiles",
                         !.renders[i].totalPages = totalPages]
    /\ lastOp' = [kind |-> "renderPaginationControls"]
    /\ UNCHANGED <<schema, db, keyGen, companyMap, now>>

\* renderJobs goes on with the profiles and calls getPaginatedJobs with the
\* page and the page size of appState at that moment.  The rendering init
\* waited for is followed by setupEventListeners and
\* initDeleteAndEditHandlers, which add their listeners once more.
renderJobsAfterProfiles(i) ==
    /\ saving.pc = "view" /\ i \in 1..Len(saving.renders)
    /\ saving.renders[i].pc = "profiles"
    /\ lastOp' = [kind |-> "getPaginatedJobs",
                  status |-> saving.renders[i].status,
                  page |-> saving.currentPage,
                  itemsPerPage |-> saving.itemsPerPage,
                  totalPages |-> saving.renders[i].totalPages]
    /\ saving' = [saving EXCEPT
                     !.renders = WithoutRender(@, i),
                     !.listeners = IF saving.renders[i].fromInit
                                   THEN @ + 1 ELSE @]
    /\ UNCHANGED <<schema, db, keyGen, companyMap, now>>

\* One submit listener of the add-job form for a new job, from the company
\* its lookup found to the call of refreshJobsView.
JobFormListener(st, title, companyName, company, autoCreateCompany) ==
    LET saved(companyId, s) ==
            LET r == IdbAdd("jobs", s.db.jobs, s.keyGen.jobs,
                            NewJob(title, companyId, Null, now))
            IN  [s EXCEPT !.db.jobs = r.recs, !.keyGen.jobs = r.gen,
                          !.view = IF r.ok THEN
                                      [@ EXCEPT !.renders = Append(@,
                                          Render(s.view.currentJobViewStatus,
                                                 FALSE))]
                                   ELSE @]
    IN  IF company = {} /\ autoCreateCompany
        THEN LET r == IdbAdd("companies", st.db.companies,
                             st.keyGen.companies,
                             [id |-> Undefined, name |-> companyName])
             IN  IF r.ok
                 THEN saved(r.key,
                            [st EXCEPT !.db.companies = r.recs,
                                       !.keyGen.companies = r.gen,
                                       !.companyMap =
                                           MapSet(@, r.key, companyName)])
                 ELSE [st EXCEPT !.keyGen.companies = r.gen]
        ELSE IF company # {}
        THEN saved((CHOOSE c \in company : TRUE).id, st)
        ELSE st

RECURSIVE JobFormListeners(_, _, _, _, _, _)
JobFormListeners(st, title, companyName, company, autoCreateCompany, n) ==
    IF n = 0 THEN st
    ELSE JobFormListeners(
             JobFormListener(st, title, companyName, company,
                             autoCreateCompany),
             title, companyName, company, autoCreateCompany, n - 1)

\* One submission of the add-job form for a new job: every submit listener
\* places its getCompanyByName request before any of them goes on.
addJobFormSubmit(title, companyName, autoCreateCompany) ==
    /\ saving.pc = "view"
    /\ Len(saving.renders) + saving.listeners <= MaxRenders
    /\ keyGen.jobs + saving.listeners - 1 <= MaxStoreId
    /\ LET company == getCompanyByName(db.companies, companyName)
           st == JobFormListeners(
                     [db |-> db, keyGen |-> keyGen,
                      companyMap |-> companyMap, view |-> saving],
                     title, companyName, company, autoCreateCompany,
                     saving.listeners)
       IN  /\ db' = st.db
           /\ keyGen' = st.keyGen
           /\ companyMap' = st.companyMap
           /\ saving' = st.view
           /\ lastOp' = [kind |-> "submitJobForm",
                         resolves |-> company # {} \/ autoCreateCompany]
    /\ UNCHANGED <<schema, now>>

\* A restore of the document a backup of the database holds.
restoreBackupFile ==
    /\ saving.pc = "view"
    /\ Len(saving.renders) < MaxRenders
    /\ saving.listeners
          + Cardinality({i \in 1..Len(saving.renders) :
                            saving.renders[i].fromInit}) < MaxListeners
    /\ restoreDatabase(exportDB(db), TRUE)

NextView ==
    \/ \E status \in StatusesUsed : statusTabClick(status)
    \/ prevPageClick
    \/ nextPageClick
    \/ \E itemsPerPage \in 1..MaxPageSize : itemsPerPageChange(itemsPerPage)
    \/ \E i \in 1..MaxRenders : renderJobsAfterCount(i)
    \/ \E i \in 1..MaxRenders : renderJobsAfterProfiles(i)
    \/ \E companyName \in Names, autoCreateCompany \in BOOLEAN :
            addJobFormSubmit("Dev", companyName, autoCreateCompany)
    \/ restoreBackupFile

SpecView == InitView /\ [][NextView]_vars

\* C25: every call renderJobs makes to getPaginatedJobs passes a page in
\* the range 1 .. max(1, totalPages), totalPages being the number of pages
\* that same rendering computed from getJobCount and itemsPerPage.
C25_RenderedPageInRange ==
    lastOp.kind = "getPaginatedJobs" =>
        /\ 1 <= lastOp.page
        /\ lastOp.page <= (IF lastOp.totalPages < 1 THEN 1
                           ELSE lastOp.totalPages)

\* C30: each user event is handled once, also after restores: a submission
\* of the add-job form that resolves its company stores exactly one new
\* job, and a click on next-page advances currentPage by exactly one.
C30_EachEventHandledOnce ==
    [][/\ lastOp'.kind = "nextPage" =>
              saving'.currentPage = saving.currentPage + 1
       /\ (lastOp'.kind = "submitJobForm" /\ lastOp'.resolves) =>
              /\ db.jobs \subseteq db'.jobs
              /\ Cardinality(db'.jobs \ db.jobs) = 1]_vars

-----------------------------------------------------------------------------
(* Saving a job with a company name *)

\* The step is the add-job form's handler going on after an await.
JobFormResumes == saving.pc \in {"lookup", "created"} /\ saving' # saving

\* The step stores exactly one new job, and its company_id is the id of a
\* stored company with the name the form was submitted with.
SavesJobOf(company) ==
    /\ lastOp'.kind = "addJob" /\ lastOp'.ok
    /\ db'.companies = db.companies
    /\ db.jobs \subseteq db'.jobs
    /\ \E job \in db'.jobs \ db.jobs :
          /\ db'.jobs \ db.jobs = {job}
          /\ job.company_id = company.id
          /\ \E c \in GetItem(db'.companies, job.company_id) :
                c.name = saving.companyName

-----------------------------------------------------------------------------
(* The update paths of jobs and profiles, one handler at a time *)

\* A stored job as the handlers leave it: saved by the add-job form, then
\* moved to a status, and analysed against profile 1 or not.
EditJob(id, status, analysed, createdAt) ==
    [id |-> id, title |-> "Dev", company_id |-> 1, salary |-> Null,
     notes |-> "Old", status |-> status, created_at |-> createdAt,
     profile_id |-> IF analysed THEN 1 ELSE Null,
     match_percentage |-> IF analysed THEN 80 ELSE Null,
     match_justification |-> IF analysed THEN 1 ELSE Null,
     ai_keywords |-> IF analysed THEN 1 ELSE Null]

\* A stored profile as handleAddProfile saves it.
EditProfile(id, createdAt) ==
    [id |-> id, name |-> "CV", content |-> "Text", notes |-> "Old",
     created_at |-> createdAt]

InitEdit ==
    /\ schema = OpenedSchema
    /\ \E p \in SUBSET {1} :
       \E pAt \in 1..MaxClock :
       \E ids \in SUBSET (1..MaxInitId) :
       \E st \in [ids -> StatusesUsed] :
       \E an \in [ids -> BOOLEAN] :
       \E at \in [ids -> 1..MaxClock] :
          db = [companies |-> {[id |-> 1, name |-> "Acme"],
                               [id |-> 2, name |-> "Beta"]},
                profiles |-> {EditProfile(i, pAt) : i \in p},
                people |-> {},
                jobs |-> {EditJob(i, st[i], an[i], at[i]) : i \in ids}]
    /\ keyGen = [s \in StoreNames |-> MaxKey(db[s]) + 1]
    /\ companyMap = CompanyMapOf(db.companies)
    /\ now = MaxClock
    /\ lastOp = NoOp
    /\ saving = Idle

\* The drop listener of a kanban column: the dragged job is read and
\* written back with the status of the column.
drop(jobId, newStatus) ==
    /\ \E job \in GetItem(db.jobs, jobId) :
          db' = updateJob(db, [job EXCEPT !.status = newStatus])
    /\ lastOp' = [kind |-> "drop", ok |-> TRUE, id |-> jobId]
    /\ UNCHANGED <<schema, keyGen, companyMap, now, saving>>

\* handleEditProfileSubmit: name, content and notes come from the form,
\* created_at from the stored profile.  Without a stored profile the read
\* of originalProfile.created_at throws, and the catch block reports it.
handleEditProfileSubmit(id, name, content, notes) ==
    /\ IF GetItem(db.profiles, id) = {}
       THEN /\ db' = db
            /\ lastOp' = [kind |-> "editProfile", ok |-> FALSE, id |-> id]
       ELSE \E originalProfile \in GetItem(db.profiles, id) :
            /\ db' = [db EXCEPT !.profiles =
                         IdbPut("profiles", db.profiles, keyGen.profiles,
                                [id |-> id, name |-> name,
                                 content |-> content, notes |-> notes,
                                 created_at |->
                                     originalProfile.created_at]).recs]
            /\ lastOp' = [kind |-> "editProfile", ok |-> TRUE, id |-> id]
    /\ UNCHANGED <<schema, keyGen, companyMap, now, saving>>

\* The submit listener of the notes form: a job's notes go through
\* updateJobNotes; a profile is read and written back with the notes when
\* it exists.
notesFormSubmit(type, id, notes) ==
    IF type = "jobs" THEN updateJobNotes(id, notes)
    ELSE /\ db' = [db EXCEPT !.profiles =
                      {IF profile.id = id THEN [profile EXCEPT !.notes = notes]
                       ELSE profile : profile \in db.profiles}]
         /\ lastOp' = [kind |-> "updateNotes", store |-> type, id |-> id,
                       ok |-> TRUE]
         /\ UNCHANGED <<schema, keyGen, companyMap, now, saving>>

NextEdit ==
    /\ lastOp.kind = "none"
    /\ \/ \E jobId \in 1..MaxInitId, title \in {"Dev", "Ops"},
             companyName \in Names, notes \in {"Old", "Note"} :
                SubmitJobEdit(jobId, title, companyName, notes)
       \/ \E jobId \in 1..MaxInitId, newStatus \in StatusesUsed :
                saveChange(jobId, newStatus)
       \/ \E jobId \in 1..MaxInitId, newStatus \in StatusesUsed :
                drop(jobId, newStatus)
       \/ \E type \in {"jobs", "profiles"}, id \in 1..MaxInitId :
                notesFormSubmit(type, id, "Note")
       \/ \E id \in 1..MaxProfileId, name \in {"CV", "Resume"} :
                handleEditProfileSubmit(id, name, "Text", "Note")
       \/ \E jobId \in 1..MaxInitId,
             profileId \in {Null} \cup 1..MaxProfileId :
                profileSelectChange(jobId, profileId)

SpecEdit == InitEdit /\ [][NextEdit]_vars

\* The fields of a job that only the handlers of the list write.
PreservedFields ==
    {"status", "created_at", "profile_id", "match_percentage",
     "match_justification", "ai_keywords"}

\* The record with the given id before and after the step, when both exist.
Rewritten(store, id) ==
    {pair \in GetItem(db[store], id) \X GetItem(db'[store], id) : TRUE}

-----------------------------------------------------------------------------
(* Properties of the listing *)

RECURSIVE ConcatPages(_, _)
ConcatPages(pages, last) ==
    IF last = 0 THEN <<>>
    ELSE ConcatPages(pages, last - 1) \o pages[last].jobs

EffectiveKey(sortBy) ==
    IF sortBy[1] = "company_name" THEN "company_id" ELSE sortBy[1]

Matching(status) == {j \in db.jobs : j.status = status}

\* C3: for every status S, page size P and sort on an indexed field, the
\* pages 1..ceil(N/P) of the listing, concatenated, hold each of the N
\* stored jobs of status S exactly once, also the jobs whose sort field
\* is null.
C3_PagesCoverEveryJob ==
    (lastOp.kind = "pages"
        /\ EffectiveKey(lastOp.sortBy) \in IndexNames("jobs")) =>
    LET n == Cardinality(Matching(lastOp.status))
        all == ConcatPages(lastOp.pages, Ceil(n, lastOp.itemsPerPage))
    IN  /\ Len(all) = n
        /\ {all[i] : i \in 1..Len(all)} = Matching(lastOp.status)

\* C9: with sort 'created_at DESC' the jobs of every page are
\* non-increasing by created_at, and the last job of page k is not older
\* than the first job of page k+1.
C9_CreatedAtDescMonotone ==
    (lastOp.kind = "pages" /\ lastOp.sortBy = <<"created_at", "DESC">>) =>
    \A k \in 1..MaxPage :
        LET pg == lastOp.pages[k].jobs
        IN  /\ \A i \in 1..(Len(pg) - 1) :
                  pg[i].created_at >= pg[i + 1].created_at
            /\ (k < MaxPage /\ pg # <<>> /\ lastOp.pages[k + 1].jobs # <<>>)
                  => pg[Len(pg)].created_at
                        >= lastOp.pages[k + 1].jobs[1].created_at

\* A listing by created_at DESC that fills two pages with jobs saved at
\* different times.
C9_Witness ==
    /\ lastOp.kind = "pages"
    /\ lastOp.sortBy = <<"created_at", "DESC">>
    /\ lastOp.pages[1].jobs # <<>>
    /\ lastOp.pages[2].jobs # <<>>
    /\ lastOp.pages[1].jobs[1].created_at
          > lastOp.pages[2].jobs[1].created_at

\* C10: a page that getPaginatedJobs returns holds at most itemsPerPage
\* jobs, all of the requested status, for a sort by status and for a sort
\* by any other field.
C10_PageBoundedAndFiltered ==
    lastOp.kind = "pages" =>
    \A k \in 1..MaxPage :
        lastOp.pages[k].ok =>
            LET pg == lastOp.pages[k].jobs
            IN  /\ Len(pg) <= lastOp.itemsPerPage
                /\ \A i \in 1..Len(pg) : pg[i].status = lastOp.status

\* A full first page of a listing sorted by another field than status,
\* taken while the store holds a job of another status and more jobs of
\* the requested status than fit on the page.
C10_Witness ==
    /\ lastOp.kind = "pages"
    /\ lastOp.sortBy[1] = "created_at"
    /\ Len(lastOp.pages[1].jobs) = lastOp.itemsPerPage
    /\ lastOp.count > lastOp.itemsPerPage
    /\ \E j \in db.jobs : j.status # lastOp.status

\* C11: with T = ceil(getJobCount(S) / P), page T of the listing is
\* non-empty when getJobCount(S) > 0, every page after T is empty, and the
\* pages 1..T hold getJobCount(S) jobs in total, for every sort spec.
C11_CountMatchesPages ==
    lastOp.kind = "pages" =>
    LET T == Ceil(lastOp.count, lastOp.itemsPerPage)
    IN  /\ lastOp.count > 0 => lastOp.pages[T].jobs # <<>>
        /\ \A k \in (T + 1)..MaxPage : lastOp.pages[k].jobs = <<>>
        /\ Len(ConcatPages(lastOp.pages, T)) = lastOp.count

\* C12: getPaginatedJobs returns a page, and does not fail, for each of
\* the seven sort fields in both directions.
C12_EverySortFieldReturnsPage ==
    lastOp.kind = "pages" => \A k \in 1..MaxPage : lastOp.pages[k].ok

\* The reference sequence: all stored jobs of the status, ordered by the
\* sort field (then by id) in the requested direction, a null field
\* counting as the lowest value.
Reference(status, sortBy) ==
    LET asc == SortEntries(Matching(status), EffectiveKey(sortBy))
    IN  IF sortBy[2] = "DESC" THEN Reverse(asc) ELSE asc

Slice(seq, from, to) ==
    IF from > Len(seq) THEN <<>>
    ELSE SubSeq(seq, from, IF to > Len(seq) THEN Len(seq) ELSE to)

PositionIn(seq, x) == CHOOSE i \in 1..Len(seq) : seq[i] = x

\* C24: when a page is full, the last entry the cursor visited before the
\* promise resolved is the entry of the itemsPerPage-th job of the page,
\* also when more entries follow it in the index.
C24_ResolvesWhenPageIsFull ==
    lastOp.kind = "pages" =>
    \A k \in 1..MaxPage :
        LET pg == lastOp.pages[k]
            cur == OpenCursor(db.jobs, EffectiveKey(lastOp.sortBy),
                              lastOp.status, lastOp.sortBy[2])
        IN  (pg.ok /\ Len(pg.jobs) = lastOp.itemsPerPage)
                => pg.visited = PositionIn(cur, pg.jobs[Len(pg.jobs)])

\* C23: page k of a listing is the elements (k-1)*P+1 .. k*P of the
\* reference sequence of all stored jobs of the status.
C23_PageIsSliceOfReference ==
    lastOp.kind = "pages" =>
    \A k \in 1..MaxPage :
        /\ lastOp.pages[k].ok
        /\ lastOp.pages[k].jobs =
              Slice(Reference(lastOp.status, lastOp.sortBy),
                    (k - 1) * lastOp.itemsPerPage + 1,
                    k * lastOp.itemsPerPage)

-----------------------------------------------------------------------------
(* Properties of backup and restore *)

IsImport(op) == op.kind = "import"

\* C4: importDB(exportDB()) on a populated database leaves each of the
\* four stores with the same records as before, ids and field values
\* included.
C4_RoundTripPreservesStores ==
    [][(IsImport(lastOp') /\ lastOp'.roundTrip)
          => (lastOp'.outcome = "resolved" /\ db' = db)]_vars

\* A restored backup of a database with records in all four stores.
C4_Witness ==
    /\ IsImport(lastOp)
    /\ lastOp.roundTrip
    /\ \A s \in StoreNames : db[s] # {}
    /\ Cardinality(db.companies) = 2

\* What the import leaves when a record that fails to insert is skipped
\* and the import goes on.
RECURSIVE ImportSkipping(_, _, _)
ImportSkipping(ops, k, txn) ==
    IF k > Len(ops) THEN txn
    ELSE LET op == ops[k]
             r == IdbAdd(op.store, txn.db[op.store], txn.keyGen[op.store],
                         WithoutNullId(op.item))
         IN  ImportSkipping(ops, k + 1,
                 IF op.type = "clear"
                 THEN [txn EXCEPT !.db[op.store] = {}]
                 ELSE [txn EXCEPT !.db[op.store] = r.recs,
                                  !.keyGen[op.store] = r.gen])

\* C6: when the insert of one record fails during importDB, the record is
\* skipped: importDB completes without error and every other record of
\* the document that can be inserted is in its store afterwards.
C6_ImportSkipsFailedRecord ==
    [][IsImport(lastOp')
          => /\ lastOp'.outcome = "resolved"
             /\ db' = ImportSkipping(ImportOps(lastOp'.data, 1), 1,
                          [db |-> db, keyGen |-> keyGen]).db]_vars

InDocument(rec, data, store) ==
    /\ store \in DOMAIN data
    /\ \E i \in 1..Len(data[store]) : data[store][i] = rec

\* C7: after importDB completes, no store holds a record that was there
\* before the import and is not in the document.
C7_ImportReplacesStores ==
    [][(IsImport(lastOp') /\ lastOp'.outcome = "resolved")
          => \A s \in StoreNames :
                \A r \in db'[s] \cap db[s] :
                    InDocument(r, lastOp'.data, s)]_vars

NoId(item) == item.id \in {Null, Undefined}

SameButId(a, b) == [a EXCEPT !.id = Undefined] = [b EXCEPT !.id = Undefined]

\* An id-less record of the document that no unique index can refuse.
Insertable(data, store, i) ==
    /\ NoId(data[store][i])
    /\ store = "companies" =>
          \A j \in 1..Len(data[store]) :
              j # i => data[store][j].name # data[store][i].name

\* C8: every record of the document whose id is missing or null is in its
\* store after the import, under a newly assigned id of its own.
C8_IdlessRecordsGetFreshIds ==
    [][IsImport(lastOp')
          => \A s \in DOMAIN lastOp'.data :
                \A i \in 1..Len(lastOp'.data[s]) :
                    Insertable(lastOp'.data, s, i) =>
                        Cardinality({r \in db'[s] :
                            /\ r.id >= keyGen[s]
                            /\ SameButId(r, lastOp'.data[s][i])})
                        >= Cardinality({j \in 1..Len(lastOp'.data[s]) :
                            /\ NoId(lastOp'.data[s][j])
                            /\ SameButId(lastOp'.data[s][j],
                                         lastOp'.data[s][i])})]_vars

-----------------------------------------------------------------------------
(* Properties of the handlers *)

\* C1: no two companies have the same name, and a create (from the
\* add-company form or the auto-create of the add-job form) whose name an
\* existing company has fails and adds no record.
C1_CompanyNameUnique ==
    [][/\ UniqueNames(db'.companies)
       /\ (lastOp'.kind = "addCompany"
              /\ \E c \in db.companies : c.name = lastOp'.name)
            => (~lastOp'.ok /\ db'.companies = db.companies)]_vars

\* The auto-create of the add-job form refused: the company was created
\* by the add-company form while the job form awaited its lookup.
C1_Witness ==
    /\ lastOp.kind = "addCompany"
    /\ lastOp.via = "add-job-form"
    /\ ~lastOp.ok
    /\ Cardinality({c \in db.companies : c.name = lastOp.name}) = 1

IsDelete(op, type) == op.kind = "delete" /\ op.type = type

\* C2: once the profile-delete of P has completed, every job that had
\* profile_id = P has profile_id, match_percentage and match_justification
\* null, and P is not in the profiles store.
C2_ProfileDeleteUnlinksJobs ==
    [][(IsDelete(lastOp', "profile") /\ lastOp'.ok)
          => /\ GetItem(db'.profiles, lastOp'.id) = {}
             /\ \A old \in db.jobs :
                   old.profile_id = lastOp'.id =>
                       \E j \in db'.jobs :
                           /\ j.id = old.id
                           /\ j.profile_id = Null
                           /\ j.match_percentage = Null
                           /\ j.match_justification = Null]_vars

\* C5: deleting a company succeeds whether or not jobs reference it, and
\* leaves every record of the jobs store as it was.
C5_CompanyDeleteLeavesJobs ==
    [][IsDelete(lastOp', "company")
          => (lastOp'.ok /\ db'.jobs = db.jobs
                /\ GetItem(db'.companies, lastOp'.id) = {})]_vars

\* A company deleted while a job references it: the job keeps the id.
C5_Witness ==
    /\ IsDelete(lastOp, "company")
    /\ GetItem(db.companies, lastOp.id) = {}
    /\ \E j \in db.jobs : j.company_id = lastOp.id

\* C21: a rename to a name another company has fails, is reported, and
\* leaves the companies store and companyMap as they were; a rename that
\* succeeds changes that company's record only, and no job.
C21_RenameConflictLeavesAllUnchanged ==
    [][lastOp'.kind = "editCompany" =>
         IF \E c \in db.companies :
                c.id # lastOp'.id /\ c.name = lastOp'.name
         THEN ~lastOp'.ok /\ db' = db /\ companyMap' = companyMap
         ELSE /\ lastOp'.ok
              /\ \A s \in StoreNames \ {"companies"} : db'[s] = db[s]
              /\ {c \in db'.companies : c.id # lastOp'.id}
                    = {c \in db.companies : c.id # lastOp'.id}
              /\ GetItem(db'.companies, lastOp'.id)
                    = {[id |-> lastOp'.id, name |-> lastOp'.name]}]_vars

\* A rename refused because another company has the name, while a job
\* references the company that was to be renamed.
C21_Witness ==
    /\ lastOp.kind = "editCompany" /\ ~lastOp.ok
    /\ \E c \in db.companies : c.id # lastOp.id /\ c.name = lastOp.name
    /\ \E j \in db.jobs : j.company_id = lastOp.id

\* C22: when no handler is suspended, the profile_id of every job is null
\* or the id of a profile in the profiles store.
C22_NoDanglingProfileReference ==
    saving.pc = "idle" =>
        \A j \in db.jobs :
            j.profile_id # Null => GetItem(db.profiles, j.profile_id) # {}

\* C26: the profile is removed only after every job that
\* getJobsByProfileId returns for it has been written back unlinked.
C26_ProfileRemovedAfterUnlinks ==
    [][(/\ IsDelete(lastOp', "profile")
        /\ GetItem(db.profiles, lastOp'.id) # {}
        /\ GetItem(db'.profiles, lastOp'.id) = {})
       => LET jobsToUpdate == getJobsByProfileId(db.jobs, lastOp'.id)
          IN  \A i \in 1..Len(jobsToUpdate) :
                 \E j \in GetItem(db'.jobs, jobsToUpdate[i].id) :
                    j.profile_id = Null]_vars

-----------------------------------------------------------------------------
(* Properties of the repository functions *)

\* The field each entity requires.
RequiredField ==
    [companies |-> "name", profiles |-> "content", jobs |-> "title"]

\* C13: addCompany without name, addJob without title and addProfile
\* without content fail, and add no record to the store.
C13_CreateWithoutRequiredFieldFails ==
    [][(/\ lastOp'.kind = "addItem"
        /\ lastOp'.store \in DOMAIN RequiredField
        /\ RequiredField[lastOp'.store] \notin DOMAIN lastOp'.item)
       => ~lastOp'.ok /\ db' = db]_vars

\* C14: an update, a delete or an update of the notes whose id names no
\* record of the store does not succeed, and leaves the store as it was.
C14_AbsentTargetIsAnError ==
    [][(/\ lastOp'.kind \in {"updateItem", "deleteItem", "updateNotes"}
        /\ GetItem(db[lastOp'.store], lastOp'.id) = {})
       => ~lastOp'.ok /\ db' = db]_vars

\* C15: every job in the store has one of the eight statuses.
C15_StatusIsEnumerated == \A j \in db.jobs : j.status \in JOB_STATUSES

\* C20: with no company operation in flight, companyMap is the mapping
\* id -> name of the records in the companies store.
C20_CompanyMapMirrorsStore ==
    saving.pc = "idle" =>
        /\ DOMAIN companyMap = {c.id : c \in db.companies}
        /\ \A c \in db.companies :
              "name" \in DOMAIN c /\ companyMap[c.id] = c.name

\* C18 as stated: an id the store has issued (it is below the key
\* generator) and that no record holds is never given to a record again,
\* by a create, an update, a delete or an import.
C18_IdsNeverReused ==
    [][\A s \in StoreNames : \A r \in db'[s] :
          r.id < keyGen[s] => \E q \in db[s] : q.id = r.id]_vars

\* C18, amended: an id that has once been assigned to a record is never
\* assigned by the store's key generator to a different record later: over
\* creates, updates, deletes and imports the key generator never goes down
\* and stays above the id of every record of the store.
C18_GeneratedIdsAreFresh ==
    [][\A s \in StoreNames :
          /\ keyGen'[s] >= keyGen[s]
          /\ \A r \in db'[s] : r.id < keyGen'[s]]_vars

\* A record was added under a generated id while a lower id, issued
\* before and deleted, is held by no record.
C18_Witness ==
    /\ lastOp.kind = "addItem" /\ lastOp.ok
    /\ lastOp.item.id = Undefined
    /\ \E r \in db[lastOp.store] : r.id = keyGen[lastOp.store] - 1
    /\ \E k \in 1..(keyGen[lastOp.store] - 2) :
          GetItem(db[lastOp.store], k) = {}

\* C19: a second call of initDB on the initialised database creates no
\* store and no index, removes none, and leaves the records of the four
\* stores as they are.
C19_InitDBIdempotent ==
    [][lastOp'.kind = "initDB" => schema' = schema /\ db' = db]_vars

C19_Witness ==
    /\ lastOp.kind = "initDB"
    /\ schema.version = DB_VERSION
    /\ DOMAIN schema.indexes = StoreNames
    /\ \A s \in StoreNames : db[s] # {}

-----------------------------------------------------------------------------
(* Properties of the match fields *)

IsSet(v) == v \notin {Null, Undefined}

\* C16: every job has match_percentage and match_justification both null
\* or both set.
C16_MatchFieldsSetTogether ==
    \A j \in db.jobs :
        \/ j.match_percentage = Null /\ j.match_justification = Null
        \/ IsSet(j.match_percentage) /\ IsSet(j.match_justification)

\* C17: a write that changes the profile_id of a job leaves its
\* match_percentage and match_justification null.
C17_ProfileChangeClearsMatch ==
    [][\A j \in db.jobs : \A k \in db'.jobs :
          (k.id = j.id /\ k.profile_id # j.profile_id)
          => k.match_percentage = Null /\ k.match_justification = Null]_vars

\* C29: when handleAnalyzeMatchFromList writes the job it read before the
\* reply of the language model, the stored job keeps the status and the
\* profile_id that were committed in the meantime.
C29_NoLostUpdate ==
    [][lastOp'.kind = "analyzeMatch" =>
         \A j \in db.jobs : \A k \in db'.jobs :
            k.id = j.id => k.status = j.status
                           /\ k.profile_id = j.profile_id]_vars

====
